---- MODULE Spec2Model ----
(***************************************************************************)
(* ThemeProvider: a light/dark theme flag held in React state, mirrored   *)
(* to localStorage["theme"] and to a class on <html>, and synchronised    *)
(* across the tabs of one origin through the window "storage" event.      *)
(*                                                                         *)
(* Each tab is one open document with its own <html> class list, its own  *)
(* queue of dispatched storage events and (while mounted) one             *)
(* ThemeProvider.  All tabs share one localStorage.  A handler runs to    *)
(* completion together with the React commit it causes (render +          *)
(* useLayoutEffect), as on the single UI thread of a tab.  Stored values  *)
(* are valid class tokens (classList.add does not throw).                 *)
(***************************************************************************)
EXTENDS Integers, Sequences, FiniteSets, TLC

\* ---- bounds -----------------------------------------------------------
\* number of user / host initiated operations (mount, unmount, toggle,
\* writes by other scripts, change of the system colour scheme) in a run
MaxOps == 3

\* number of writes to localStorage by other scripts of the origin in a run
MaxExt == 1

\* ---- values -----------------------------------------------------------
Tabs == {"A", "B"}

\* JavaScript null (getItem of an absent key, newValue of a removal,
\* key of a clear()); also the theme slot of a tab with no provider
NULL == "<null>"

THEME_KEY == "theme"
OTHER_KEY == "other"
Keys == {THEME_KEY, OTHER_KEY}

\* the Theme type
Theme == {"light", "dark"}

\* strings a same-origin script may have left under a key:
\* the two valid themes, a malformed token and the empty string
Strings == {"light", "dark", "blue", ""}
StoreValues == Strings \cup {NULL}

\* class tokens of interest on document.documentElement
Markers == {"light", "dark"}

\* StorageEvent: the changed key (null for clear()) and its new value
StorageEvent == [key : Keys \cup {NULL}, newValue : StoreValues]

VARIABLES
    store,       \* localStorage.getItem('theme'), shared by all tabs
    prefersDark, \* matchMedia('(prefers-color-scheme: dark)').matches
    mounted,     \* tab -> is a ThemeProvider mounted in this tab
    instances,   \* tab -> number of provider instances created in this tab
    theme,       \* tab -> the provider's theme state (NULL when unmounted)
    classes,     \* tab -> class tokens on the tab's root element
    listeners,   \* tab -> number of registered 'storage' listeners
    queue,       \* tab -> storage events dispatched to the tab, not yet run
    ops,         \* operations performed so far
    ext,         \* writes by other scripts performed so far
    last         \* the operation that produced this state

vars == <<store, prefersDark, mounted, instances, theme, classes, listeners, queue, ops, ext, last>>

\* ---- pure helpers -----------------------------------------------------
\* JavaScript truthiness of a string-or-null
Truthy(v) == v # NULL /\ v # ""

\* variants of the initializer: the media query consulted first; the media
\* query never consulted
InitialThemeMediaFirst(savedTheme, matches) ==
    IF matches THEN "dark"
    ELSE IF Truthy(savedTheme) THEN savedTheme ELSE "light"

InitialThemeNoMedia(savedTheme, matches) ==
    IF Truthy(savedTheme) THEN savedTheme ELSE "light"

\* the lazy initializer of useState
InitialTheme(savedTheme, matches) ==
    IF Truthy(savedTheme) THEN savedTheme
    ELSE IF matches THEN "dark" ELSE "light"

\* the updater passed to setTheme by toggleTheme
ToggleFn(prev) == IF prev = "light" THEN "dark" ELSE "light"

\* variant of the handler's condition: the key is not compared
AcceptsAnyKey(e) ==
    e.newValue = "light" \/ e.newValue = "dark"

\* the condition of handleStorageChange
Accepts(e) ==
    /\ e.key = THEME_KEY
    /\ (e.newValue = "light" \/ e.newValue = "dark")

\* root.classList.remove('light', 'dark'); root.classList.add(theme)
ApplyClass(cls, th) == (cls \ {"light", "dark"}) \cup {th}

\* variant: the write is lost
SetItemValueKept(old, value) == old

\* the value under a key after localStorage.setItem(key, value)
SetItemValue(old, value) == value

\* listener count after globalThis.addEventListener('storage', h)
AddEventListener(n) == n + 1

\* variant: the cleanup leaves the listener registered
RemoveEventListenerLeak(n) == n

\* listener count after the cleanup's removeEventListener('storage', h)
RemoveEventListener(n) == IF n > 0 THEN n - 1 ELSE 0

isDark(t) == theme[t] = "dark"

\* the record of an operation: its name, its tab, the event it handled,
\* the stored value a mount read, the theme the tab held before
Op(name, t, e) ==
    [op |-> name, tab |-> t, ev |-> e,
     saved |-> IF name = "Mount" THEN store ELSE NULL,
     prev |-> IF t \in Tabs THEN theme[t] ELSE NULL]

NoEvent == [key |-> NULL, newValue |-> NULL]

\* ---- storage ----------------------------------------------------------
\* A write of `value` under `key` by context `src`: the store changes and,
\* when the value really changed, every other document gets a storage event.
Dispatch(q, src, e) ==
    [t \in Tabs |-> IF t # src THEN Append(q[t], e) ELSE q[t]]

WriteStore(q, src, value) ==
    LET new == SetItemValue(store, value) IN
    /\ store' = new
    /\ queue' = IF new # store
                THEN Dispatch(q, src, [key |-> THEME_KEY, newValue |-> new])
                ELSE q

\* the useLayoutEffect body, run in tab t for theme th
Synchronize(q, t, th) ==
    /\ classes' = [classes EXCEPT ![t] = ApplyClass(classes[t], th)]
    /\ WriteStore(q, t, th)

\* setTheme(th) followed by the commit: React bails out when the state is
\* unchanged; otherwise the effect with deps [theme] runs again.
SetTheme(q, t, th) ==
    IF th = theme[t]
    THEN /\ queue' = q
         /\ UNCHANGED <<theme, classes, store>>
    ELSE /\ theme' = [theme EXCEPT ![t] = th]
         /\ Synchronize(q, t, th)

\* ---- operations -------------------------------------------------------
Init ==
    /\ store \in StoreValues
    /\ prefersDark \in BOOLEAN
    /\ mounted = [t \in Tabs |-> FALSE]
    /\ instances = [t \in Tabs |-> 0]
    /\ theme = [t \in Tabs |-> NULL]
    /\ \E markup \in {{}, Markers} : classes = [t \in Tabs |-> markup]
    /\ listeners = [t \in Tabs |-> 0]
    /\ queue = [t \in Tabs |-> <<>>]
    /\ ops = 0
    /\ ext = 0
    /\ last = [op |-> "Init", tab |-> NULL, ev |-> NoEvent,
               saved |-> NULL, prev |-> NULL]

\* <ThemeProvider> mounts in tab t: initializer, layout effect, effect
Mount(t) ==
    /\ ops < MaxOps
    /\ ~mounted[t]
    /\ LET th == InitialTheme(store, prefersDark) IN
        /\ theme' = [theme EXCEPT ![t] = th]
        /\ Synchronize(queue, t, th)
    /\ listeners' = [listeners EXCEPT ![t] = AddEventListener(@)]
    /\ mounted' = [mounted EXCEPT ![t] = TRUE]
    /\ instances' = [instances EXCEPT ![t] = @ + 1]
    /\ ops' = ops + 1
    /\ last' = Op("Mount", t, NoEvent)
    /\ UNCHANGED <<prefersDark, ext>>

\* the provider unmounts: the effect cleanup runs, the state is dropped
Unmount(t) ==
    /\ ops < MaxOps
    /\ mounted[t]
    /\ listeners' = [listeners EXCEPT ![t] = RemoveEventListener(@)]
    /\ mounted' = [mounted EXCEPT ![t] = FALSE]
    /\ theme' = [theme EXCEPT ![t] = NULL]
    /\ ops' = ops + 1
    /\ last' = Op("Unmount", t, NoEvent)
    /\ UNCHANGED <<store, prefersDark, instances, classes, queue, ext>>

\* a consumer calls toggleTheme()
Toggle(t) ==
    /\ ops < MaxOps
    /\ mounted[t]
    /\ SetTheme(queue, t, ToggleFn(theme[t]))
    /\ ops' = ops + 1
    /\ last' = Op("Toggle", t, NoEvent)
    /\ UNCHANGED <<prefersDark, mounted, instances, listeners, ext>>

\* the window of tab t dispatches its oldest pending storage event
Deliver(t) ==
    /\ queue[t] # <<>>
    /\ LET e == Head(queue[t])
           q == [queue EXCEPT ![t] = Tail(@)] IN
        /\ IF listeners[t] > 0 /\ Accepts(e)
           THEN SetTheme(q, t, e.newValue)
           ELSE /\ queue' = q
                /\ UNCHANGED <<theme, classes, store>>
        /\ last' = Op("Deliver", t, e)
    /\ UNCHANGED <<prefersDark, mounted, instances, listeners, ops, ext>>

\* another script of the origin stores a new value under "theme"
ExtSetItem(value) ==
    /\ ext < MaxExt
    /\ value # store
    /\ WriteStore(queue, NULL, value)
    /\ ext' = ext + 1
    /\ last' = Op("ExtSetItem", NULL, NoEvent)
    /\ UNCHANGED <<prefersDark, mounted, instances, theme, classes, listeners, ops>>

\* another script of the origin stores a new value under another key
\* (the contents of other keys are not tracked)
ExtSetOther(value) ==
    /\ ext < MaxExt
    /\ queue' = Dispatch(queue, NULL, [key |-> OTHER_KEY, newValue |-> value])
    /\ ext' = ext + 1
    /\ last' = Op("ExtSetOther", NULL, NoEvent)
    /\ UNCHANGED <<store, prefersDark, mounted, instances, theme, classes, listeners, ops>>

\* another script of the origin calls localStorage.removeItem('theme')
ExtRemoveItem ==
    /\ ext < MaxExt
    /\ store # NULL
    /\ store' = NULL
    /\ queue' = Dispatch(queue, NULL, [key |-> THEME_KEY, newValue |-> NULL])
    /\ ext' = ext + 1
    /\ last' = Op("ExtRemoveItem", NULL, NoEvent)
    /\ UNCHANGED <<prefersDark, mounted, instances, theme, classes, listeners, ops>>

\* another script of the origin calls localStorage.clear() on a non-empty
\* storage
ExtClear ==
    /\ ext < MaxExt
    /\ store' = NULL
    /\ queue' = Dispatch(queue, NULL, NoEvent)
    /\ ext' = ext + 1
    /\ last' = Op("ExtClear", NULL, NoEvent)
    /\ UNCHANGED <<prefersDark, mounted, instances, theme, classes, listeners, ops>>

\* the user changes the system colour scheme
HostPrefersChange ==
    /\ ops < MaxOps
    /\ prefersDark' = ~prefersDark
    /\ ops' = ops + 1
    /\ last' = Op("HostPrefersChange", NULL, NoEvent)
    /\ UNCHANGED <<store, mounted, instances, theme, classes, listeners, queue, ext>>

Next ==
    \/ \E t \in Tabs : Mount(t)
    \/ \E t \in Tabs : Unmount(t)
    \/ \E t \in Tabs : Toggle(t)
    \/ \E t \in Tabs : Deliver(t)
    \/ \E v \in Strings : ExtSetItem(v)
    \/ ExtSetOther("dark")
    \/ ExtRemoveItem
    \/ ExtClear
    \/ HostPrefersChange

Spec == Init /\ [][Next]_vars

\* Tabs that only run the provider: no other script writes the store.
NextTabs ==
    \/ \E t \in Tabs : Mount(t)
    \/ \E t \in Tabs : Unmount(t)
    \/ \E t \in Tabs : Toggle(t)
    \/ \E t \in Tabs : Deliver(t)

\* Every window eventually dispatches a storage event queued for it.
FairSpec ==
    /\ Init
    /\ [][NextTabs]_vars
    /\ \A t \in Tabs : WF_vars(Deliver(t))

\* ---- properties -------------------------------------------------------
\* the theme the host signal alone selects
FromMedia == IF prefersDark THEN "dark" ELSE "light"

\* the provider of last.tab has just mounted (prefersDark is as it was
\* when the initializer ran: Mount leaves it unchanged)
JustMounted == last.op = "Mount"

\* C1: a provider that starts while the store holds "light" or "dark"
\* under "theme" starts with that theme, whatever the host signal says.
C1_PersistedThemeWins ==
    (JustMounted /\ last.saved \in Theme) => theme[last.tab] = last.saved

C1_Witness ==
    /\ JustMounted
    /\ last.saved = "light"
    /\ prefersDark
    /\ theme[last.tab] = "light"

\* C2: a provider that starts while nothing is stored under "theme" starts
\* dark when the host prefers dark and light otherwise.
C2_NoPersistedUsesMedia ==
    (JustMounted /\ last.saved = NULL) => theme[last.tab] = FromMedia

C2_Witness ==
    /\ JustMounted
    /\ last.saved = NULL
    /\ prefersDark
    /\ theme[last.tab] = "dark"

\* C3: a provider that starts while the stored value is absent or is any
\* string other than "light" / "dark" (the empty string included) takes
\* its theme from the host signal, never from the stored value.
C3_MalformedFallsThrough ==
    (JustMounted /\ last.saved \notin Theme) => theme[last.tab] = FromMedia

\* C4: the theme held by a mounted provider is always light or dark.
C4_ThemeInEnum ==
    \A t \in Tabs : mounted[t] => theme[t] \in Theme

\* the last operation ran the synchronizer in last.tab: a mount, or a
\* toggle or a notification that changed the theme
JustSynchronized ==
    /\ last.op \in {"Mount", "Toggle", "Deliver"}
    /\ mounted[last.tab]
    /\ theme[last.tab] # last.prev

\* C5: once the synchronizer has run (after mount and after every theme
\* change) the store holds the current theme under "theme" and exactly one
\* of the classes light / dark is on the root element, the one of the theme.
C5_StoreAndMarkerMatch ==
    JustSynchronized =>
        /\ store = theme[last.tab]
        /\ classes[last.tab] \cap Markers = {theme[last.tab]}

\* C6: one toggle turns light into dark and dark into light, and two
\* toggles in succession (nothing in between) restore the theme that was
\* held before the first, for every theme the provider can hold.
C6_ToggleInvolution ==
    [][ (last'.op = "Toggle") =>
          /\ theme[last'.tab] = "light" => theme'[last'.tab] = "dark"
          /\ theme[last'.tab] = "dark" => theme'[last'.tab] = "light"
          /\ (last.op = "Toggle" /\ last.tab = last'.tab)
                => theme'[last'.tab] = last.prev ]_vars

\* C7: delivered to a mounted provider, a notification for key "theme"
\* with new value "light" or "dark" makes that value the theme whatever
\* the theme was; any other notification leaves the theme, the store and
\* the root element's classes as they were.
C7_NotificationFilter ==
    [][ (last'.op = "Deliver" /\ mounted[last'.tab]) =>
          LET t == last'.tab
              e == last'.ev IN
          IF e.key = "theme" /\ e.newValue \in {"light", "dark"}
          THEN theme'[t] = e.newValue
          ELSE /\ theme' = theme
               /\ store' = store
               /\ classes' = classes ]_vars

C7_Witness ==
    /\ last.op = "Deliver"
    /\ mounted[last.tab]
    /\ last.ev = [key |-> "theme", newValue |-> "dark"]
    /\ last.prev = "light"
    /\ theme[last.tab] = "dark"

\* no notification is pending and every mounted provider agrees with the store
Quiescent ==
    /\ \A t \in Tabs : queue[t] = <<>>
    /\ \A t \in Tabs : mounted[t] => theme[t] = store

\* C8: with tabs that only run the provider, once toggling has stopped and
\* notifications keep being delivered, the tabs settle: eventually, and
\* for good, nothing is pending and every provider holds the stored theme.
C8_TabsConverge == <>[]Quiescent

\* C9: a tab has one storage listener while its provider is mounted and
\* none otherwise, however often the theme changes; a notification
\* delivered to a tab whose provider is unmounted changes neither a theme
\* nor the store.
C9_ListenerScoped ==
    [][ /\ \A t \in Tabs : listeners'[t] = IF mounted'[t] THEN 1 ELSE 0
        /\ (last'.op = "Deliver" /\ ~mounted[last'.tab]) =>
              (theme' = theme /\ store' = store) ]_vars

C9_Witness ==
    /\ last.op = "Deliver"
    /\ ~mounted[last.tab]
    /\ listeners[last.tab] = 0
    /\ last.ev = [key |-> "theme", newValue |-> "dark"]
    /\ instances[last.tab] > 0
    /\ theme[last.tab] = NULL
    /\ store = "dark"

\* C10: mounting with nothing stored writes the theme chosen from the host
\* signal under "theme"; from then on the initializer returns that stored
\* theme for either value of the host signal.
C10_MountPersists ==
    (JustMounted /\ last.saved = NULL) =>
        /\ store = FromMedia
        /\ \A matches \in BOOLEAN :
              InitialTheme(store, matches) = store

C10_Witness ==
    /\ JustMounted
    /\ last.saved = NULL
    /\ ~prefersDark
    /\ store = "light"
    /\ ops = 1
    /\ ext = 0
====
